---- MODULE Spec2Model ----
(***************************************************************************)
(* The QR symbol encoder of droplink (package qr): NewQRCode and the       *)
(* Generate pipeline, modelled step by step.                               *)
(*                                                                         *)
(* Grids are functions [0..n-1 -> [0..n-1 -> BOOLEAN]] indexed as in the   *)
(* source, Modules[y][x]. A nil slice is the empty function <<>>. Byte     *)
(* sequences are 1-indexed sequences of 0..255.                            *)
(***************************************************************************)
EXTENDS Integers, Sequences, FiniteSets, TLC

VARIABLES
    pc,           \* position of the caller: idle, created, the steps of Generate
    url,          \* the payload handed to NewQRCode (bytes)
    qr,           \* the QRCode struct (NilQR while there is none)
    err,          \* the error returned by the last call ("nil" when none)
    encodedData,  \* Generate's local encodedData
    mask,         \* findBestMask's loop variable
    bestMask,     \* findBestMask's local
    bestPenalty   \* findBestMask's local

vars == <<pc, url, qr, err, encodedData, mask, bestMask, bestPenalty>>

----------------------------------------------------------------------------
(* Bounds of the model: the payloads that are enumerated.                  *)

\* NewQRCode/encodeData alone are checked for every length 0..MaxPayloadLen
MaxPayloadLen == 272
\* Generate is run for the lengths 1 + k*LenStride, k < NumLens
NumLens == 12
LenStride == 24
\* number of byte patterns per length
NumSeeds == 2

\* the i-th byte (1-based) of the payload of pattern s
PayloadByte(i, s) == (104 + 31 * s + i * (2 * s + 3)) % 256

Payload(L, s) == [i \in 1..L |-> PayloadByte(i, s)]

AllPayloads == { Payload(L, s) : L \in 0..MaxPayloadLen, s \in 0..(NumSeeds - 1) }

GenPayloads == { Payload(1 + k * LenStride, s) : k \in 0..(NumLens - 1), s \in 0..(NumSeeds - 1) }

----------------------------------------------------------------------------
(* Static tables.                                                          *)

Low == 0
Medium == 1
Quartile == 2
High == 3

ErrorLevels == {Low, Medium, Quartile, High}

\* versionCapacity[version][errorLevel + 1]
versionCapacity ==
    << <<17, 14, 11, 7>>,
       <<32, 26, 20, 14>>,
       <<53, 42, 32, 24>>,
       <<78, 62, 46, 34>>,
       <<106, 84, 60, 44>>,
       <<134, 106, 74, 58>>,
       <<154, 122, 86, 64>>,
       <<192, 152, 108, 84>>,
       <<230, 180, 130, 98>>,
       <<271, 213, 151, 119>> >>

\* finderPattern[dy + 1][dx + 1]
finderPattern ==
    << <<TRUE, TRUE, TRUE, TRUE, TRUE, TRUE, TRUE>>,
       <<TRUE, FALSE, FALSE, FALSE, FALSE, FALSE, TRUE>>,
       <<TRUE, FALSE, TRUE, TRUE, TRUE, FALSE, TRUE>>,
       <<TRUE, FALSE, TRUE, TRUE, TRUE, FALSE, TRUE>>,
       <<TRUE, FALSE, TRUE, TRUE, TRUE, FALSE, TRUE>>,
       <<TRUE, FALSE, FALSE, FALSE, FALSE, FALSE, TRUE>>,
       <<TRUE, TRUE, TRUE, TRUE, TRUE, TRUE, TRUE>> >>

\* the zero value of the struct, standing for "no symbol"
NilQR ==
    [Version |-> 0, Size |-> 0, ErrorLevel |-> Low, Mask |-> 0,
     Modules |-> <<>>, IsFunction |-> <<>>, Data |-> <<>>]

----------------------------------------------------------------------------
(* Symbol Sizer.                                                           *)

\* the order in which determineVersionAndErrorLevel tries the levels
LevelOrder == <<High, Quartile, Medium, Low>>

\* the inner loop of determineVersionAndErrorLevel: index of the first level of
\* LevelOrder, from k on, whose capacity at version v suffices; 0 when none
RECURSIVE FirstFit(_, _, _)
FirstFit(v, requiredCapacity, k) ==
    IF k > Len(LevelOrder) THEN 0
    ELSE IF versionCapacity[v][LevelOrder[k] + 1] >= requiredCapacity THEN k
    ELSE FirstFit(v, requiredCapacity, k + 1)

\* the outer loop of determineVersionAndErrorLevel, from version v on
RECURSIVE TryVersions(_, _)
TryVersions(v, requiredCapacity) ==
    IF v > Len(versionCapacity) THEN <<-1, Low>>
    ELSE LET k == FirstFit(v, requiredCapacity, 1)
         IN  IF k # 0 THEN <<v, LevelOrder[k]>>
             ELSE TryVersions(v + 1, requiredCapacity)

\* mutant: accepts a level whose capacity is one byte short
determineVersionAndErrorLevel_OffByOne(dataLen) ==
    TryVersions(1, dataLen + 2)

determineVersionAndErrorLevel(dataLen) ==
    TryVersions(1, dataLen + 3)

isValidURL(u) == Len(u) # 0

\* mutant: allocates one row too few
initializeGrids_OneRowShort(q) ==
    [q EXCEPT !.Modules = [i \in 0..(q.Size - 2) |-> [j \in 0..(q.Size - 1) |-> FALSE]],
              !.IsFunction = [i \in 0..(q.Size - 2) |-> [j \in 0..(q.Size - 1) |-> FALSE]]]

initializeGrids(q) ==
    [q EXCEPT !.Modules = [i \in 0..(q.Size - 1) |-> [j \in 0..(q.Size - 1) |-> FALSE]],
              !.IsFunction = [i \in 0..(q.Size - 1) |-> [j \in 0..(q.Size - 1) |-> FALSE]]]

\* NewQRCode(url): <<symbol, error>>
NewQRCode(u) ==
    IF ~isValidURL(u) THEN <<NilQR, "invalid URL format">>
    ELSE LET data == u
             ve == determineVersionAndErrorLevel(Len(data))
             version == ve[1]
             errorLevel == ve[2]
         IN  IF version = -1 THEN <<NilQR, "URL too long for QR code">>
             ELSE LET size == 21 + (version - 1) * 4
                  IN  <<initializeGrids([Version |-> version, Size |-> size,
                                         ErrorLevel |-> errorLevel, Mask |-> 0,
                                         Modules |-> <<>>, IsFunction |-> <<>>,
                                         Data |-> data]),
                        "nil">>

----------------------------------------------------------------------------
(* Helpers.                                                                *)

inBounds(q, x, y) == x >= 0 /\ x < q.Size /\ y >= 0 /\ y < q.Size

setModule(q, x, y, value) ==
    IF inBounds(q, x, y) THEN [q EXCEPT !.Modules[y][x] = value] ELSE q

setFunction(q, x, y, value) ==
    IF inBounds(q, x, y) THEN [q EXCEPT !.IsFunction[y][x] = value] ELSE q

getDataCapacity(q) ==
    IF q.Version > Len(versionCapacity) \/ q.Version < 1 THEN 0
    ELSE versionCapacity[q.Version][q.ErrorLevel + 1]

\* bit i (0 = least significant) of value
Bit(value, i) == (value \div (2 ^ i)) % 2 = 1

\* intToBits(value, length): most significant of the low `length` bits first
intToBits(value, length) == [k \in 1..length |-> Bit(value, length - k)]

min(a, b) == IF a < b THEN a ELSE b

----------------------------------------------------------------------------
(* Byte-Mode Encoder.                                                      *)

\* padBytes[padIndex % 2 + 1]
padBytes == <<236, 17>>

\* "for _, b := range data { bits = append(bits, intToBits(int(b), 8)...) }"
DataBits(data) ==
    [k \in 1..(8 * Len(data)) |-> intToBits(data[((k - 1) \div 8) + 1], 8)[((k - 1) % 8) + 1]]

\* n zero bits
ZeroBits(n) == [k \in 1..n |-> FALSE]

\* "for len(bits)%8 != 0 { bits = append(bits, false) }"
RECURSIVE PadToByteBoundary(_)
PadToByteBoundary(bits) ==
    IF Len(bits) % 8 # 0 THEN PadToByteBoundary(Append(bits, FALSE)) ELSE bits

\* mutant: the padding loop stops one byte before the capacity
AddPaddingBytes_StopsEarly(bits, padIndex, maxBits) ==
    LET n == IF Len(bits) + 8 < maxBits THEN (maxBits - Len(bits) - 1) \div 8 ELSE 0
    IN  bits \o [k \in 1..(8 * n) |->
                    intToBits(padBytes[((padIndex + ((k - 1) \div 8)) % 2) + 1], 8)[((k - 1) % 8) + 1]]

\* "for len(bits) < maxBits { ...append 8 bits...; padIndex++ }": every pass
\* appends 8 bits, so the loop makes n passes, the j-th (from 0) appending
\* padBytes[(padIndex + j) % 2]
AddPaddingBytes(bits, padIndex, maxBits) ==
    LET n == IF Len(bits) < maxBits THEN (maxBits - Len(bits) + 7) \div 8 ELSE 0
    IN  bits \o [k \in 1..(8 * n) |->
                    intToBits(padBytes[((padIndex + ((k - 1) \div 8)) % 2) + 1], 8)[((k - 1) % 8) + 1]]

\* the value of the byte made of bits[i*8+1 .. i*8+8], first bit most significant
RECURSIVE ByteOfBits(_, _, _)
ByteOfBits(bits, i, j) ==
    IF j = 8 THEN 0
    ELSE (IF bits[i * 8 + j + 1] THEN 2 ^ (7 - j) ELSE 0) + ByteOfBits(bits, i, j + 1)

\* "Convert bits to bytes"
BitsToBytes(bits) == [i \in 1..(Len(bits) \div 8) |-> ByteOfBits(bits, i - 1, 0)]

encodeData(q) ==
    LET data == q.Data
        modeBits == <<FALSE, TRUE, FALSE, FALSE>>
        lengthBits == intToBits(Len(data), 8)
        bits1 == modeBits \o lengthBits \o DataBits(data)
        maxBits == getDataCapacity(q) * 8
        terminatorLength == min(4, maxBits - Len(bits1))
        bits2 == bits1 \o ZeroBits(terminatorLength)
        bits3 == PadToByteBoundary(bits2)
        bits4 == AddPaddingBytes(bits3, 0, maxBits)
    IN  BitsToBytes(bits4)

----------------------------------------------------------------------------
(* Pattern Placer. Each placer's loops are unrolled into the sequence of   *)
(* cells <<x, y, value>> it writes, in the order of the loops, and the     *)
(* writes are then applied in that order.                                  *)

\* qr.setModule(x, y, value); qr.setFunction(x, y, true)
placeModule(q, x, y, value) == setFunction(setModule(q, x, y, value), x, y, TRUE)

\* the writes cells[lo..hi] applied in order (first half, then second half)
RECURSIVE PlaceRange(_, _, _, _)
PlaceRange(q, cells, lo, hi) ==
    IF lo < hi
    THEN LET firstHalf == PlaceRange(q, cells, lo, (lo + hi) \div 2)
         IN  IF firstHalf = NilQR THEN firstHalf   \* a symbol without grids takes no write
             ELSE PlaceRange(firstHalf, cells, ((lo + hi) \div 2) + 1, hi)
    ELSE IF lo = hi THEN placeModule(q, cells[lo][1], cells[lo][2], cells[lo][3])
    ELSE q

\* the writes of cells applied in order
PlaceAll(q, cells) == PlaceRange(q, cells, 1, Len(cells))

\* "positions" of addFinderPatterns and addSeparators
finderPositions(q) == << <<0, 0>>, <<q.Size - 7, 0>>, <<0, q.Size - 7>> >>

addFinderPatterns(q) ==
    LET positions == finderPositions(q)
        \* pos, dy, dx in loop order
        cells == [k \in 1..147 |->
                    LET pos == positions[((k - 1) \div 49) + 1]
                        dy == ((k - 1) % 49) \div 7
                        dx == (k - 1) % 7
                    IN  <<pos[1] + dx, pos[2] + dy, finderPattern[dy + 1][dx + 1]>>]
        InGrid(c) == inBounds(q, c[1], c[2])
    IN  PlaceAll(q, SelectSeq(cells, InGrid))

addSeparators(q) ==
    LET positions == finderPositions(q)
        \* pos, dy in -1..7, dx in -1..7 in loop order: <<x, y, dx, dy>>
        visits == [k \in 1..243 |->
                    LET pos == positions[((k - 1) \div 81) + 1]
                        dy == (((k - 1) % 81) \div 9) - 1
                        dx == ((k - 1) % 9) - 1
                    IN  <<pos[1] + dx, pos[2] + dy, dx, dy>>]
        OnRing(c) == /\ inBounds(q, c[1], c[2])
                     /\ (c[3] = -1 \/ c[3] = 7 \/ c[4] = -1 \/ c[4] = 7)
        ring == SelectSeq(visits, OnRing)
    IN  PlaceAll(q, [k \in 1..Len(ring) |-> <<ring[k][1], ring[k][2], FALSE>>])

addTimingPatterns(q) ==
    LET n == IF q.Size - 8 > 8 THEN q.Size - 16 ELSE 0
        \* for i = 8 .. Size-9: (i, 6) then (6, i)
        cells == [k \in 1..(2 * n) |->
                    LET i == 8 + ((k - 1) \div 2)
                    IN  IF (k - 1) % 2 = 0 THEN <<i, 6, i % 2 = 0>> ELSE <<6, i, i % 2 = 0>>]
    IN  PlaceAll(q, cells)

\* alignmentPositions[version]; <<>> where the map has no entry
alignmentPositions(version) ==
    CASE version = 2 -> <<6, 18>>
      [] version = 3 -> <<6, 22>>
      [] version = 4 -> <<6, 26>>
      [] version = 5 -> <<6, 30>>
      [] version = 6 -> <<6, 34>>
      [] version = 7 -> <<6, 22, 38>>
      [] version = 8 -> <<6, 24, 42>>
      [] version = 9 -> <<6, 26, 46>>
      [] version = 10 -> <<6, 28, 50>>
      [] OTHER -> <<>>

\* the "overlaps with finder pattern" test of addAlignmentPatterns
alignmentSkipped(q, centerX, centerY) ==
    \/ (centerX <= 10 /\ centerY <= 10)
    \/ (centerX >= q.Size - 10 /\ centerY <= 10)
    \/ (centerX <= 10 /\ centerY >= q.Size - 10)

\* mutant: no alignment pattern is skipped
addAlignmentPatterns_NoSkip(q) ==
    IF q.Version = 1 THEN q
    ELSE LET positions == alignmentPositions(q.Version)
             n == Len(positions)
             visits == [k \in 1..(n * n * 25) |->
                         LET centerY == positions[((k - 1) \div (n * 25)) + 1]
                             centerX == positions[(((k - 1) \div 25) % n) + 1]
                             dy == (((k - 1) % 25) \div 5) - 2
                             dx == ((k - 1) % 5) - 2
                         IN  <<centerX + dx, centerY + dy,
                               (dx = -2 \/ dx = 2 \/ dy = -2 \/ dy = 2 \/ (dx = 0 /\ dy = 0)),
                               centerX, centerY>>]
             Drawn(c) == inBounds(q, c[1], c[2])
         IN  PlaceAll(q, SelectSeq(visits, Drawn))

addAlignmentPatterns(q) ==
    IF q.Version = 1 THEN q
    ELSE LET positions == alignmentPositions(q.Version)
             n == Len(positions)
             \* centerY, centerX, dy, dx in loop order
             visits == [k \in 1..(n * n * 25) |->
                         LET centerY == positions[((k - 1) \div (n * 25)) + 1]
                             centerX == positions[(((k - 1) \div 25) % n) + 1]
                             dy == (((k - 1) % 25) \div 5) - 2
                             dx == ((k - 1) % 5) - 2
                         IN  <<centerX + dx, centerY + dy,
                               (dx = -2 \/ dx = 2 \/ dy = -2 \/ dy = 2 \/ (dx = 0 /\ dy = 0)),
                               centerX, centerY>>]
             Drawn(c) == ~alignmentSkipped(q, c[4], c[5]) /\ inBounds(q, c[1], c[2])
         IN  PlaceAll(q, SelectSeq(visits, Drawn))

----------------------------------------------------------------------------
(* Data Placer.                                                            *)

\* mutant: the last byte of the stream is not placed
addDataCell_DropsLastByte(st, data, x, y) ==
    LET q == st.q
        totalBits == Len(data) * 8 - 8
    IN  IF inBounds(q, x, y) /\ ~q.IsFunction[y][x]
        THEN IF st.bitIndex < totalBits
             THEN [q |-> setModule(q, x, y, Bit(data[(st.bitIndex \div 8) + 1], 7 - (st.bitIndex % 8))),
                   bitIndex |-> st.bitIndex + 1]
             ELSE [q |-> setModule(q, x, y, FALSE), bitIndex |-> st.bitIndex]
        ELSE st

\* the body of addData's innermost loop for cell (x, y); st = [q, bitIndex]
addDataCell(st, data, x, y) ==
    LET q == st.q
        totalBits == Len(data) * 8
    IN  IF inBounds(q, x, y) /\ ~q.IsFunction[y][x]
        THEN IF st.bitIndex < totalBits
             THEN LET byteIndex == st.bitIndex \div 8
                      bitPos == 7 - (st.bitIndex % 8)
                  IN  [q |-> setModule(q, x, y, Bit(data[byteIndex + 1], bitPos)),
                       bitIndex |-> st.bitIndex + 1]
             ELSE [q |-> setModule(q, x, y, FALSE), bitIndex |-> st.bitIndex]
        ELSE st

\* the values col has in the body of "for col := qr.Size - 1; col >= 0;
\* col -= 2", whose first statement is "if col == 6 { col-- }": every second
\* column from the last one down, and a walk that lands on column 6 goes on
\* from column 5
dataColumnSet(size) ==
    LET last == size - 1
        onSix == last >= 6 /\ (last - 6) % 2 = 0
    IN  { c \in 0..last : IF onSix /\ c <= 6 THEN c # 6 /\ (5 - c) % 2 = 0
                                             ELSE (last - c) % 2 = 0 }

\* the same values in the order the loop takes them, highest first
dataColumns(size) ==
    LET V == dataColumnSet(size)
    IN  [k \in 1..Cardinality(V) |-> CHOOSE c \in V : Cardinality({d \in V : d > c}) = k - 1]

\* mutant: every pair is walked bottom-to-top
dataRow_NoFlip(size, col, i) == size - 1 - i

\* the row that pass i of "for i := 0; i < qr.Size; i++" visits for the pair
\* at col: "upward := ((qr.Size-1-col)/2)%2 == 0", then row = i or Size-1-i
dataRow(size, col, i) ==
    LET upward == ((size - 1 - col) \div 2) % 2 = 0
    IN  IF upward THEN size - 1 - i ELSE i

\* one pass of "for i := 0; i < qr.Size; i++" for the pair at col: the right
\* cell of the row, then the left one
addDataRow(st, data, col, i) ==
    LET row == dataRow(st.q.Size, col, i)
    IN  addDataCell(addDataCell(st, data, col, row), data, col - 1, row)

\* the passes lo..hi of the two outer loops of addData, in order (first half,
\* then second half); pass k is row pass k % Size of column pass k \div Size
RECURSIVE addDataPasses(_, _, _, _, _)
addDataPasses(st, data, cols, lo, hi) ==
    IF lo < hi
    THEN LET firstHalf == addDataPasses(st, data, cols, lo, (lo + hi) \div 2)
         IN  IF firstHalf.bitIndex < 0 THEN firstHalf   \* bitIndex is never negative
             ELSE addDataPasses(firstHalf, data, cols, ((lo + hi) \div 2) + 1, hi)
    ELSE IF lo = hi
    THEN addDataRow(st, data, cols[(lo \div st.q.Size) + 1], lo % st.q.Size)
    ELSE st

\* mutant: the function grid is not consulted
addData_IgnoresFunction(q, data) ==
    LET blank == [q EXCEPT !.IsFunction =
                     [y \in 0..(q.Size - 1) |-> [x \in 0..(q.Size - 1) |-> FALSE]]]
        cols == dataColumns(q.Size)
        placed == addDataPasses([q |-> blank, bitIndex |-> 0], data, cols,
                                0, Len(cols) * q.Size - 1).q
    IN  [placed EXCEPT !.IsFunction = q.IsFunction]

addData(q, data) ==
    LET cols == dataColumns(q.Size)
    IN  addDataPasses([q |-> q, bitIndex |-> 0], data, cols, 0, Len(cols) * q.Size - 1).q

----------------------------------------------------------------------------
(* Mask Evaluator/Applier.                                                 *)

MaxInt32 == 2147483647

shouldMask(x, y, m) ==
    CASE m = 0 -> (x + y) % 2 = 0
      [] m = 1 -> y % 2 = 0
      [] m = 2 -> x % 3 = 0
      [] m = 3 -> (x + y) % 3 = 0
      [] m = 4 -> ((y \div 2) + (x \div 3)) % 2 = 0
      [] m = 5 -> ((x * y) % 2) + ((x * y) % 3) = 0
      [] m = 6 -> (((x * y) % 2) + ((x * y) % 3)) % 2 = 0
      [] m = 7 -> (((x + y) % 2) + ((x * y) % 3)) % 2 = 0
      [] OTHER -> FALSE

\* mutant: the masked cells are set dark instead of toggled
applyMask_SetsDark(q, m) ==
    [q EXCEPT !.Modules =
        [y \in 0..(q.Size - 1) |->
            [x \in 0..(q.Size - 1) |->
                IF ~q.IsFunction[y][x] /\ shouldMask(x, y, m)
                THEN TRUE
                ELSE q.Modules[y][x]]]]

\* every cell is visited once, so the loops are one pass over the grid
applyMask(q, m) ==
    [q EXCEPT !.Modules =
        [y \in 0..(q.Size - 1) |->
            [x \in 0..(q.Size - 1) |->
                IF ~q.IsFunction[y][x] /\ shouldMask(x, y, m)
                THEN ~q.Modules[y][x]
                ELSE q.Modules[y][x]]]]

\* mutant: a run is penalised only from length 6 on
runPenalty_FromSix(count) == IF count > 5 THEN 3 + (count - 5) ELSE 0

\* "if count >= 5 { penalty += 3 + (count - 5) }"
runPenalty(count) == IF count >= 5 THEN 3 + (count - 5) ELSE 0

\* one pass of the inner loop of calculatePenalty; st = [count, penalty]
penaltyStep(st, row, x) ==
    IF row[x] = row[x - 1]
    THEN [count |-> st.count + 1, penalty |-> st.penalty]
    ELSE [count |-> 1, penalty |-> st.penalty + runPenalty(st.count)]

\* the passes x = lo..hi of the inner loop, in order (first half, then second)
RECURSIVE penaltyScan(_, _, _, _)
penaltyScan(st, row, lo, hi) ==
    IF lo < hi
    THEN LET firstHalf == penaltyScan(st, row, lo, (lo + hi) \div 2)
         IN  IF firstHalf.count < 1 THEN firstHalf   \* count is never below 1
             ELSE penaltyScan(firstHalf, row, ((lo + hi) \div 2) + 1, hi)
    ELSE IF lo = hi THEN penaltyStep(st, row, lo)
    ELSE st

\* one pass of the outer loop of calculatePenalty: row y added to penalty
penaltyOfRow(q, y, penalty) ==
    LET st == penaltyScan([count |-> 1, penalty |-> penalty], q.Modules[y], 1, q.Size - 1)
    IN  st.penalty + runPenalty(st.count)

\* the passes y = lo..hi of the outer loop, in order (first half, then second)
RECURSIVE penaltyRows(_, _, _, _)
penaltyRows(q, penalty, lo, hi) ==
    IF lo < hi
    THEN LET firstHalf == penaltyRows(q, penalty, lo, (lo + hi) \div 2)
         IN  IF firstHalf < 0 THEN firstHalf   \* the penalty is never negative
             ELSE penaltyRows(q, firstHalf, ((lo + hi) \div 2) + 1, hi)
    ELSE IF lo = hi THEN penaltyOfRow(q, lo, penalty)
    ELSE penalty

calculatePenalty(q) == penaltyRows(q, 0, 0, q.Size - 1)

----------------------------------------------------------------------------
(* Format-Info Embedder.                                                   *)

\* formatInfos[errorLevel + 1][mask + 1]
formatInfos ==
    << <<21522, 20773, 24188, 23371, 17913, 16590, 20375, 19104>>,
       <<20773, 21522, 19307, 20060, 20718, 21977, 23168, 24503>>,
       <<6132, 4705, 7480, 6159, 1725, 906, 3283, 2532>>,
       <<5769, 5054, 7399, 6608, 1890, 597, 3340, 2107>> >>

\* the cells written by iteration i of addFormatInfo's loop, in order
formatInfoCellsAt(q, formatInfo, i) ==
    LET bit == Bit(formatInfo, i)
    IN  IF i < 6 THEN << <<8, i, bit>>, <<i, 8, bit>> >>
        ELSE IF i = 6 THEN << <<8, 7, bit>>, <<7, 8, bit>> >>
        ELSE IF i = 7 THEN << <<8, 8, bit>> >>
        ELSE IF i = 8 THEN << <<7, 8, bit>> >>
        ELSE << <<14 - i, 8, bit>>, <<8, q.Size - 15 + i, bit>> >>

\* "for i := 0; i < 15; i++" of addFormatInfo, from i on
RECURSIVE formatInfoCells(_, _, _)
formatInfoCells(q, formatInfo, i) ==
    IF i >= 15 THEN <<>>
    ELSE formatInfoCellsAt(q, formatInfo, i) \o formatInfoCells(q, formatInfo, i + 1)

addFormatInfo(q) ==
    LET formatInfo == formatInfos[q.ErrorLevel + 1][q.Mask + 1]
        afterBits == PlaceAll(q, formatInfoCells(q, formatInfo, 0))
    IN  placeModule(afterBits, 8, q.Size - 8, TRUE)

----------------------------------------------------------------------------
(* The caller: NewQRCode on the payload.                                   *)

NewQRCodeStep ==
    /\ pc = "Idle"
    /\ LET r == NewQRCode(url)
       IN  /\ qr' = r[1]
           /\ err' = r[2]
           /\ pc' = IF r[2] = "nil" THEN "Created" ELSE "Rejected"
    /\ UNCHANGED <<url, encodedData, mask, bestMask, bestPenalty>>

InitCommon ==
    /\ pc = "Idle"
    /\ qr = NilQR
    /\ err = "nil"
    /\ encodedData = <<>>
    /\ mask = 0
    /\ bestMask = 0
    /\ bestPenalty = 0

\* encodeData applied to the symbol NewQRCode returned
EncodeDataCall ==
    /\ pc = "Created"
    /\ encodedData' = encodeData(qr)
    /\ pc' = "EncodedOnly"
    /\ UNCHANGED <<url, qr, err, mask, bestMask, bestPenalty>>

InitFactory == InitCommon /\ url \in AllPayloads

NextFactory == NewQRCodeStep \/ EncodeDataCall

SpecFactory == InitFactory /\ [][NextFactory]_vars

----------------------------------------------------------------------------
(* Generate, one action per step of its body.                              *)

\* grids a caller can put in a struct literal that Generate refuses: none,
\* or one row short
RefusedGrids(size) ==
    { <<>>, [i \in 0..(size - 2) |-> [j \in 0..(size - 1) |-> FALSE]] }

\* QRCode is an exported struct: a caller may build one without NewQRCode
StructLiteral ==
    /\ pc = "Idle"
    /\ Len(url) > 0
    /\ \E g \in RefusedGrids(21) :
           qr' = [Version |-> 1, Size |-> 21, ErrorLevel |-> Low, Mask |-> 0,
                  Modules |-> g, IsFunction |-> g, Data |-> url]
    /\ pc' = "Literal"
    /\ UNCHANGED <<url, err, encodedData, mask, bestMask, bestPenalty>>

\* number of rows of a grid (len of the outer slice)
Rows(g) == Cardinality(DOMAIN g)

\* the two checks at the head of Generate
GenerateVerify ==
    /\ pc \in {"Created", "Literal"}
    /\ IF qr.Modules = <<>> \/ qr.IsFunction = <<>>
       THEN /\ err' = "QR code grids not properly initialized"
            /\ pc' = "GenerateFailed"
       ELSE IF Rows(qr.Modules) # qr.Size \/ Rows(qr.IsFunction) # qr.Size
       THEN /\ err' = "QR code size mismatch"
            /\ pc' = "GenerateFailed"
       ELSE /\ err' = "nil"
            /\ pc' = "Verified"
    /\ UNCHANGED <<url, qr, encodedData, mask, bestMask, bestPenalty>>

AddFinderPatterns ==
    /\ pc = "Verified"
    /\ qr' = addFinderPatterns(qr)
    /\ pc' = "FindersPlaced"
    /\ UNCHANGED <<url, err, encodedData, mask, bestMask, bestPenalty>>

AddSeparators ==
    /\ pc = "FindersPlaced"
    /\ qr' = addSeparators(qr)
    /\ pc' = "SeparatorsPlaced"
    /\ UNCHANGED <<url, err, encodedData, mask, bestMask, bestPenalty>>

AddTimingPatterns ==
    /\ pc = "SeparatorsPlaced"
    /\ qr' = addTimingPatterns(qr)
    /\ pc' = "TimingPlaced"
    /\ UNCHANGED <<url, err, encodedData, mask, bestMask, bestPenalty>>

AddAlignmentPatterns ==
    /\ pc = "TimingPlaced"
    /\ qr' = addAlignmentPatterns(qr)
    /\ pc' = "PatternsPlaced"
    /\ UNCHANGED <<url, err, encodedData, mask, bestMask, bestPenalty>>

\* encodeData never returns an error
EncodeData ==
    /\ pc = "PatternsPlaced"
    /\ encodedData' = encodeData(qr)
    /\ pc' = "DataEncoded"
    /\ UNCHANGED <<url, qr, err, mask, bestMask, bestPenalty>>

AddData ==
    /\ pc = "DataEncoded"
    /\ qr' = addData(qr, encodedData)
    /\ pc' = "DataPlaced"
    /\ UNCHANGED <<url, err, encodedData, mask, bestMask, bestPenalty>>

\* entry of findBestMask: its locals
FindBestMaskEnter ==
    /\ pc = "DataPlaced"
    /\ mask' = 0
    /\ bestMask' = 0
    /\ bestPenalty' = MaxInt32
    /\ pc' = "FindBestMask"
    /\ UNCHANGED <<url, qr, err, encodedData>>

\* one iteration of findBestMask's loop: apply, score, remove, compare
TryMask ==
    /\ pc = "FindBestMask"
    /\ mask < 8
    /\ LET trial == applyMask(qr, mask)
           penalty == calculatePenalty(trial)
       IN  /\ qr' = applyMask(trial, mask)
           /\ IF penalty < bestPenalty
              THEN bestPenalty' = penalty /\ bestMask' = mask
              ELSE UNCHANGED <<bestPenalty, bestMask>>
    /\ mask' = mask + 1
    /\ UNCHANGED <<pc, url, err, encodedData>>

\* "qr.Mask = qr.findBestMask()" returning, and "qr.applyMask(qr.Mask)"
CommitMask ==
    /\ pc = "FindBestMask"
    /\ mask >= 8
    /\ qr' = applyMask([qr EXCEPT !.Mask = bestMask], bestMask)
    /\ pc' = "Masked"
    /\ UNCHANGED <<url, err, encodedData, mask, bestMask, bestPenalty>>

AddFormatInfo ==
    /\ pc = "Masked"
    /\ qr' = addFormatInfo(qr)
    /\ pc' = "FormatEmbedded"
    /\ UNCHANGED <<url, err, encodedData, mask, bestMask, bestPenalty>>

Init == InitCommon /\ url \in GenPayloads

Next ==
    \/ NewQRCodeStep
    \/ StructLiteral
    \/ GenerateVerify
    \/ AddFinderPatterns
    \/ AddSeparators
    \/ AddTimingPatterns
    \/ AddAlignmentPatterns
    \/ EncodeData
    \/ AddData
    \/ FindBestMaskEnter
    \/ TryMask
    \/ CommitMask
    \/ AddFormatInfo

Spec == Init /\ [][Next]_vars

----------------------------------------------------------------------------
(* Claims about Generate (under Spec)                                      *)

\* b has the function grid of a, and a's value in every function cell of a
FunctionCellsKept(a, b) ==
    /\ b.IsFunction = a.IsFunction
    /\ \A y \in 0..(a.Size - 1) : \A x \in 0..(a.Size - 1) :
          a.IsFunction[y][x] => b.Modules[y][x] = a.Modules[y][x]

\* C3: no step of the Data Placer or of the Mask Applier (the trial
\* applications of findBestMask included) changes the module value of a cell
\* that is marked in the function grid, nor the function grid.
C3_FunctionCellsUntouched ==
    [][ (pc \in {"DataEncoded", "DataPlaced", "FindBestMask"}) =>
          /\ FunctionCellsKept(qr, qr')
          /\ (pc = "FindBestMask" /\ mask < 8 => FunctionCellsKept(qr, applyMask(qr, mask)))
    ]_vars

\* C3 witness: data placed and a mask other than 0 committed on a symbol
\* with alignment patterns, whose function cells include dark ones
C3_Witness ==
    /\ pc = "Masked"
    /\ qr.Version >= 7
    /\ qr.Mask # 0
    /\ qr.IsFunction[6][22] /\ qr.Modules[6][22]

\* C4: a cell that is function-marked in the completed symbol (format
\* information cells and dark module included) is never written by the Data
\* Placer nor toggled by the Mask Applier: its value is the same after every
\* step of data placement and masking, trial applications included.
C4_FinalFunctionCellsOffLimits ==
    [][ (pc \in {"DataEncoded", "DataPlaced", "FindBestMask"}) =>
          LET final == addFormatInfo(qr).IsFunction
          IN  \A y \in 0..(qr.Size - 1) : \A x \in 0..(qr.Size - 1) :
                 final[y][x] =>
                    /\ qr'.Modules[y][x] = qr.Modules[y][x]
                    /\ (pc = "FindBestMask" /\ mask < 8 =>
                           applyMask(qr, mask).Modules[y][x] = qr.Modules[y][x])
    ]_vars

\* the states in which both grids are allocated with Size rows
GridsAllocated ==
    pc \notin {"Idle", "Rejected", "Literal", "GenerateFailed"}

\* C5: applyMask(m) twice restores the module grid, for every mask 0..7 and
\* every grid pair reached; every iteration of findBestMask (apply, score,
\* remove) leaves the symbol as it found it, so findBestMask returns with
\* both grids as they were when it was called.
C5_MaskInvolution ==
    /\ [](GridsAllocated => \A m \in 0..7 : applyMask(applyMask(qr, m), m) = qr)
    /\ [][(pc = "FindBestMask" /\ mask < 8) => qr' = qr]_vars

\* C5 witness: findBestMask has tried all 8 masks on a grid that mask 0
\* changes, and the grid is the one applyMask restores
C5_Witness ==
    /\ pc = "FindBestMask"
    /\ mask = 8
    /\ applyMask(qr, 0) # qr
    /\ applyMask(applyMask(qr, 0), 0) = qr

\* the five cells of row y from x on exist and are identical
FiveAlike(modules, size, y, x) ==
    x + 4 <= size - 1 /\ \A t \in 1..4 : modules[y][x + t] = modules[y][x]

\* a maximal run of identical cells of row y starts at x and is >= 5 long
LongRunStart(modules, size, y, x) ==
    (x = 0 \/ modules[y][x - 1] # modules[y][x]) /\ FiveAlike(modules, size, y, x)

\* cell x of row y lies in a maximal run that is >= 5 long
InLongRun(modules, size, y, x) ==
    \E s \in 0..4 : x - s >= 0 /\ FiveAlike(modules, size, y, x - s)

\* the row-run penalty: over all rows, 3 + (length - 5) for every maximal run
\* of length >= 5. 3 + (length - 5) = length - 2, so the sum is the number of
\* cells in such runs less twice the number of such runs.
RowRunPenalty(modules, size) ==
    LET grid == (0..(size - 1)) \X (0..(size - 1))
    IN  Cardinality({ c \in grid : InLongRun(modules, size, c[1], c[2]) })
          - 2 * Cardinality({ c \in grid : LongRunStart(modules, size, c[1], c[2]) })

\* C6: the mask Generate commits is in 0..7 and is the lowest index whose
\* row-run penalty, computed on the data-placed grid with that mask applied,
\* is minimal among the 8 candidates; the committed grid is the data-placed
\* grid with that mask applied.
C6_BestMaskMinimal ==
    [][ (pc = "FindBestMask" /\ mask >= 8) =>
          LET P == [m \in 0..7 |-> RowRunPenalty(applyMask(qr, m).Modules, qr.Size)]
              chosen == qr'.Mask
          IN  /\ chosen \in 0..7
              /\ qr'.Modules = applyMask(qr, chosen).Modules
              /\ \A m \in 0..7 : P[m] >= P[chosen]
              /\ \A m \in 0..(chosen - 1) : P[m] > P[chosen]
    ]_vars

\* C6 witness: a mask other than 0 was committed
C6_Witness == pc = "Masked" /\ qr.Mask = bestMask /\ bestMask # 0 /\ bestPenalty > 0

\* the step of Generate that follows each position
NextStepOf ==
    [p \in {"Verified", "FindersPlaced", "SeparatorsPlaced", "TimingPlaced",
            "PatternsPlaced", "DataEncoded", "DataPlaced", "FindBestMask", "Masked"} |->
        CASE p = "Verified" -> "FindersPlaced"
          [] p = "FindersPlaced" -> "SeparatorsPlaced"
          [] p = "SeparatorsPlaced" -> "TimingPlaced"
          [] p = "TimingPlaced" -> "PatternsPlaced"
          [] p = "PatternsPlaced" -> "DataEncoded"
          [] p = "DataEncoded" -> "DataPlaced"
          [] p = "DataPlaced" -> "FindBestMask"
          [] p = "FindBestMask" -> "Masked"
          [] p = "Masked" -> "FormatEmbedded"]

\* C9: Generate on a symbol NewQRCode created never returns an error; its
\* steps follow one another in the order patterns, encoding, placement,
\* masking, format information, none is skipped and nothing follows
\* FormatEmbedded; an error is returned only by the checks at its head, with the symbol
\* (both grids and the mask) unchanged.
C9_GeneratePipeline ==
    [][ /\ (pc = "Created" => pc' = "Verified" /\ err' = "nil")
        /\ (pc \in DOMAIN NextStepOf =>
               /\ err' = "nil"
               /\ \/ pc' = NextStepOf[pc]
                  \/ pc = "FindBestMask" /\ mask < 8 /\ pc' = pc /\ mask' = mask + 1)
        /\ (pc' = "Masked" => mask = 8 /\ qr'.Mask = bestMask)
        /\ pc \notin {"FormatEmbedded", "GenerateFailed"}
        /\ (pc' = "GenerateFailed" =>
               /\ pc \in {"Created", "Literal"}
               /\ err' # "nil"
               /\ qr' = qr)
    ]_vars

\* C9 witness: both outcomes are reached, a refused struct literal here
C9_Witness ==
    /\ pc = "GenerateFailed"
    /\ err = "QR code size mismatch"
    /\ Rows(qr.Modules) = qr.Size - 1

\* the finder template: dark border ring, light ring, dark 3x3 core
FinderTemplate(dx, dy) ==
    \/ dx \in {0, 6} \/ dy \in {0, 6}
    \/ (dx \in 2..4 /\ dy \in 2..4)

\* the three finder regions hold the template, the in-bounds cells of the
\* ring around each are light, and all of them are function-marked
FindersIntact(q) ==
    \A pos \in { <<0, 0>>, <<q.Size - 7, 0>>, <<0, q.Size - 7>> } :
        \A dx \in -1..7 : \A dy \in -1..7 :
            LET x == pos[1] + dx
                y == pos[2] + dy
            IN  (x \in 0..(q.Size - 1) /\ y \in 0..(q.Size - 1)) =>
                   /\ q.IsFunction[y][x]
                   /\ q.Modules[y][x] =
                         (dx \in 0..6 /\ dy \in 0..6 /\ FinderTemplate(dx, dy))

\* C10: from the separators on and in the completed symbol, for every
\* version, the three 7x7 finder regions equal the template, the ring
\* around each is light and all these cells are function-marked: no later
\* step changes them.
C10_FindersIntact ==
    pc \in {"SeparatorsPlaced", "TimingPlaced", "PatternsPlaced", "DataEncoded",
            "DataPlaced", "FindBestMask", "Masked", "FormatEmbedded"} =>
        FindersIntact(qr)

\* C10 witness: a completed version-10 symbol with its bottom-left finder
C10_Witness ==
    /\ pc = "FormatEmbedded"
    /\ qr.Version = 10
    /\ qr.Modules[50][0] /\ ~qr.Modules[49][0] /\ qr.Modules[52][2] /\ ~qr.Modules[51][1]
    /\ qr.IsFunction[49][7]

----------------------------------------------------------------------------
(* Claims about the sizer, the factory and the encoder (under SpecFactory) *)

capacity(v, level) == versionCapacity[v][level + 1]

\* the versions at which some level holds L + 3 bytes
FittingVersions(L) == { v \in 1..10 : \E el \in ErrorLevels : capacity(v, el) >= L + 3 }

\* the levels that hold L + 3 bytes at version v
FittingLevels(v, L) == { el \in ErrorLevels : capacity(v, el) >= L + 3 }

\* C1: for every payload length L with 1 <= L and L + 3 <= 271 the sizer
\* returns the smallest version in 1..10 at which some level has capacity
\* >= L + 3 and, at that version, the strongest such level (High > Quartile >
\* Medium > Low); the pair returned has capacity >= L + 3; L = 22 gives
\* version 2, Medium.
C1_SizerSmallestStrongest ==
    pc = "Created" /\ Len(url) >= 1 /\ Len(url) + 3 <= 271 =>
        LET L == Len(url)
            r == determineVersionAndErrorLevel(L)
        IN  /\ r = <<qr.Version, qr.ErrorLevel>>
            /\ qr.Version \in FittingVersions(L)
            /\ \A v \in FittingVersions(L) : qr.Version <= v
            /\ qr.ErrorLevel \in FittingLevels(qr.Version, L)
            /\ \A el \in FittingLevels(qr.Version, L) : el <= qr.ErrorLevel
            /\ capacity(qr.Version, qr.ErrorLevel) >= L + 3
            /\ (L = 22 => qr.Version = 2 /\ qr.ErrorLevel = Medium)

\* C1 witness: the 22-byte payload of Scenario A was sized (version 2, Medium)
C1_Witness ==
    pc = "Created" /\ Len(url) = 22 /\ qr.Version = 2 /\ qr.ErrorLevel = Medium

StreamBit(bytes, j) == Bit(bytes[(j \div 8) + 1], 7 - (j % 8))

\* the stream the claim describes, bit j of it, for payload data and capacity cap
ExpectedBit(data, cap, j) ==
    LET L == Len(data)
        headerEnd == 12 + 8 * L
        term == min(4, cap * 8 - headerEnd)
        padStart == ((headerEnd + term + 7) \div 8) * 8
    IN  IF j < 4 THEN j = 1
        ELSE IF j < 12 THEN Bit(L, 11 - j)
        ELSE IF j < headerEnd THEN Bit(data[((j - 12) \div 8) + 1], 7 - ((j - 12) % 8))
        ELSE IF j < padStart THEN FALSE
        ELSE Bit(IF ((j - padStart) \div 8) % 2 = 0 THEN 236 ELSE 17, 7 - (j % 8))

\* C7: for every symbol NewQRCode produced, encodeData returns exactly
\* capacity(version, errorLevel) bytes: 0100, the 8-bit length field (the low
\* 8 bits of the length), the payload bytes MSB-first, a terminator of
\* min(4, remaining) zero bits, zero bits to the byte boundary, then 0xEC,
\* 0x11 alternating up to the capacity.
C7_EncodedStream ==
    pc = "EncodedOnly" =>
        LET cap == capacity(qr.Version, qr.ErrorLevel)
        IN  /\ Len(encodedData) = cap
            /\ \A j \in 0..(cap * 8 - 1) :
                  StreamBit(encodedData, j) = ExpectedBit(qr.Data, cap, j)

\* C7 witness: a stream with payload, terminator and at least two pad bytes
C7_Witness ==
    /\ pc = "EncodedOnly"
    /\ Len(qr.Data) = 22
    /\ Len(encodedData) = 26
    /\ encodedData[25] = 236
    /\ encodedData[26] = 17

\* the 8-bit length field of an encoded stream (bits 4..11)
LengthField(bytes) == (bytes[1] % 16) * 16 + (bytes[2] \div 16)

\* C8: for every payload NewQRCode accepts, the length fits in one byte and
\* the length field written by encodeData equals the payload length.
C8_LengthFitsOneByte ==
    pc = "EncodedOnly" =>
        /\ Len(qr.Data) < 256
        /\ LengthField(encodedData) = Len(qr.Data)


-----------------------------------------------------------------------------
(* Claims about the format information and the data path (under Spec)     *)

\* the (errorLevel, mask) pairs the table maps to the constant c
FormatInfoPairs(c) ==
    { p \in ErrorLevels \X (0..7) : formatInfos[p[1] + 1][p[2] + 1] = c }

\* C11: the constant addFormatInfo embeds in a completed symbol is below
\* 2^15 and is the table's value for no other (errorLevel, mask) pair than
\* the symbol's own, so the pair can be recovered from it.
C11_FormatInfoDetermines ==
    pc = "FormatEmbedded" =>
        LET c == formatInfos[qr.ErrorLevel + 1][qr.Mask + 1]
        IN  /\ c < 2^15
            /\ FormatInfoPairs(c) = { <<qr.ErrorLevel, qr.Mask>> }


\* the writes of addFormatInfo's loop on q, as <<i, x, y>>: iteration i
\* writes the cell at column x, row y
FormatWrites(q) ==
    UNION { { <<i, formatInfoCellsAt(q, 0, i)[k][1], formatInfoCellsAt(q, 0, i)[k][2]>> :
                k \in 1..Len(formatInfoCellsAt(q, 0, i)) } : i \in 0..14 }

\* C12: in a completed symbol every cell the embedder wrote holds the format
\* bit of the index it was written for: column 8 rows 0..5 and row 8 columns
\* 0..5 hold bits 0..5, the cells (8,7) and (7,8) hold bit 6, bits 9..14 are
\* at row 8 column 14-i and at column 8 row size-15+i; no cell is written for
\* two different bit indices; the dark module at (8, size-8) is dark and
\* function-marked.
C12_FormatBitsInPlace ==
    pc = "FormatEmbedded" =>
        LET c == formatInfos[qr.ErrorLevel + 1][qr.Mask + 1]
        IN  /\ \A w \in FormatWrites(qr) : qr.Modules[w[3]][w[2]] = Bit(c, w[1])
            /\ \A i \in 0..5 : qr.Modules[i][8] = Bit(c, i) /\ qr.Modules[8][i] = Bit(c, i)
            /\ qr.Modules[7][8] = Bit(c, 6) /\ qr.Modules[8][7] = Bit(c, 6)
            /\ \A i \in 9..14 : /\ qr.Modules[8][14 - i] = Bit(c, i)
                                /\ qr.Modules[qr.Size - 15 + i][8] = Bit(c, i)
            /\ \A w1 \in FormatWrites(qr) : \A w2 \in FormatWrites(qr) :
                  (w1[2] = w2[2] /\ w1[3] = w2[3]) => w1[1] = w2[1]
            /\ qr.Modules[qr.Size - 8][8] /\ qr.IsFunction[qr.Size - 8][8]


\* the number of column pairs of the zigzag on a grid of the given size
ZigzagPairs(size) == (size - 1) \div 2

\* the n-th cell (from 0) of the zigzag the claim describes, as <<x, y>>:
\* pair j has its right column at size-1-2j, one further left once column 6
\* is passed; even pairs go bottom-to-top, odd pairs top-to-bottom; in each
\* row the right cell comes first
ZigzagCell(size, n) ==
    LET j == n \div (2 * size)
        i == (n % (2 * size)) \div 2
        right == IF size - 1 - 2 * j > 6 THEN size - 1 - 2 * j ELSE size - 2 - 2 * j
        row == IF j % 2 = 0 THEN size - 1 - i ELSE i
    IN  <<right - (n % 2), row>>

\* the cells of the zigzag that are not function-marked in q, in order
ZigzagFree(q) ==
    LET Free(c) == ~q.IsFunction[c[2]][c[1]]
    IN  SelectSeq([n \in 1..(2 * q.Size * ZigzagPairs(q.Size)) |-> ZigzagCell(q.Size, n - 1)],
                  Free)

\* C13: the cells addData's loops visit, in order, are the zigzag (pairs from
\* size-1 leftward by 2, column 6 never a pair column, direction flipping on
\* every pair, right cell before left); every cell that is not
\* function-marked is visited exactly once; after addData the k-th such cell
\* holds bit k of the stream, most significant bit of each byte first, and
\* every such cell past the end of the stream is light.
C13_ZigzagPlacement ==
    pc = "DataPlaced" =>
        LET size == qr.Size
            cols == dataColumns(size)
            free == ZigzagFree(qr)
        IN  /\ Len(cols) = ZigzagPairs(size)
            /\ \A j \in 1..Len(cols) : cols[j] # 6 /\ cols[j] - 1 # 6
            /\ \A j \in 1..Len(cols) : \A i \in 0..(size - 1) : \A c \in 0..1 :
                  <<cols[j] - c, dataRow(size, cols[j], i)>>
                     = ZigzagCell(size, 2 * ((j - 1) * size + i) + c)
            /\ Len(free) = Cardinality({ c \in (0..(size - 1)) \X (0..(size - 1)) :
                                           ~qr.IsFunction[c[2]][c[1]] })
            /\ Cardinality({ free[k] : k \in 1..Len(free) }) = Len(free)
            /\ \A k \in 1..Len(free) :
                  qr.Modules[free[k][2]][free[k][1]] =
                     (k - 1 < 8 * Len(encodedData) /\ StreamBit(encodedData, k - 1))

\* C13 witness: a version-3 grid after data placement in which the first
\* stream bits (0100...) sit in the bottom-right corner, going up, right cell
\* first, and the free cells left of column 6 are past the end of the stream
C13_Witness ==
    /\ pc = "DataPlaced"
    /\ qr.Version = 3
    /\ ~qr.Modules[28][28] /\ qr.Modules[28][27] /\ ~qr.Modules[27][28] /\ ~qr.Modules[27][27]
    /\ Len(ZigzagFree(qr)) > 8 * Len(encodedData)
    /\ ~qr.IsFunction[10][5] /\ ~qr.Modules[10][5]


\* the cells of q that are not function-marked, as <<x, y>>
FreeCells(q) ==
    { c \in (0..(q.Size - 1)) \X (0..(q.Size - 1)) : ~q.IsFunction[c[2]][c[1]] }

\* the cells addFormatInfo writes on q: those of its loop and the dark module
FormatCells(q) ==
    { <<w[2], w[3]>> : w \in FormatWrites(q) } \cup { <<8, q.Size - 8>> }

\* C14: when data is placed, the cells that are not function-marked are at
\* least 8 * capacity(version, level) for every level, and at least as many
\* as the stream has bits, so every stream bit gets a cell; none of the
\* first 8 * capacity(version, level) cells of the zigzag is a cell that
\* addFormatInfo writes; addFormatInfo leaves every cell that holds a stream
\* bit as it was, and in the completed symbol the k-th such cell is stream
\* bit k XOR the committed mask's predicate at that cell.
C14_NoStreamBitLost ==
    /\ [](pc \in {"DataEncoded", "DataPlaced"} =>
             LET free == ZigzagFree(qr)
                 written == FormatCells(qr)
             IN  /\ Cardinality(FreeCells(qr)) >= 8 * Len(encodedData)
                 /\ \A el \in ErrorLevels :
                       /\ Cardinality(FreeCells(qr)) >= 8 * capacity(qr.Version, el)
                       /\ \A k \in 1..(8 * capacity(qr.Version, el)) : free[k] \notin written)
    /\ [][(pc = "Masked") =>
             LET free == ZigzagFree(qr)
                 written == FormatCells(qr)
             IN  \A k \in 1..(8 * Len(encodedData)) :
                    /\ free[k] \notin written
                    /\ qr'.Modules[free[k][2]][free[k][1]] = qr.Modules[free[k][2]][free[k][1]]
                    /\ qr'.Modules[free[k][2]][free[k][1]] =
                         (StreamBit(encodedData, k - 1) # shouldMask(free[k][1], free[k][2], qr'.Mask))
         ]_vars


\* C14 witness: a completed version-10 symbol whose stream fills the whole
\* capacity (271 bytes): the cell of its last bit lies right of column 8,
\* is not function-marked and holds that bit XOR the mask predicate
C14_Witness ==
    /\ pc = "FormatEmbedded"
    /\ qr.Version = 10
    /\ Len(encodedData) = 271
    /\ LET last == ZigzagFree(qr)[8 * 271]
       IN  /\ last[1] > 8
           /\ ~qr.IsFunction[last[2]][last[1]]
           /\ qr.Modules[last[2]][last[1]] =
                 (StreamBit(encodedData, 8 * 271 - 1) # shouldMask(last[1], last[2], qr.Mask))

====
